---- MODULE Spec2Model ----
(***************************************************************************)
(* A model of rl_rebalancer.py: the replay buffer, the trading environment *)
(* (MultiGridEnv), the DQN agent's replay/epsilon schedule and the driver  *)
(* (get_scaler, play_one_episode, the main block).                         *)
(*                                                                         *)
(* Units ("grids") are numbered 1..n_grid here and 0..n_grid-1 in the      *)
(* source; rows of the valuation series are numbered 1..n_step here and    *)
(* 0..n_step-1 in the source, so grid_demand_history[cur_step] of the      *)
(* source is grid_demand_history[cur_step + 1] here.  cur_step, ptr, the   *)
(* action index and the sampled indices keep the source's 0-based values.  *)
(* Valuations, cash and holdings are whole numbers (the source computes in *)
(* float64 on values it reads from data.csv).                              *)
(***************************************************************************)
EXTENDS Integers, Sequences, FiniteSets, TLC

\* ------------------------------------------------------------------ bounds
\* rows of data.csv (n_timesteps); the main block splits them in halves
MaxRows == 5
\* valuations are drawn from {0, 1, MaxVal}
MaxVal == 2
\* the initial investment (20000 in the source) is 0, 1 or MaxCash
MaxCash == 3
\* a buy loop that can never end (every buy-marked unit costs 0) has its
\* holdings counters capped here, so that the loop is a finite cycle
MaxOwned == 3
\* the pass counter of the buy loop saturates here
MaxPass == 2
\* the action decoding of MultiGridEnv.__init__ is explored for 1..MaxG units
MaxG == 4

\* capacities of the replay buffer are 1..MaxCap (500 in DQNAgent.__init__)
MaxCap == 3
\* store is called at most MaxStores times where the calls are logged
MaxStores == 5
\* the transitions stored are drawn from TransitionSamples, MaxT of them
MaxT == 2
\* batch sizes are 1..MaxBatch (32 in the main block)
MaxBatch == 2
\* training steps counted where the buffer contents vary
MaxTrain == 3
\* training steps counted where epsilon runs down to its floor
MaxDecay == 925

\* numbers of units of the environments that are run step by step
GridCounts == {1, 2}

VARIABLES
    \* the main block
    mode,                 \* args.mode
    n_timesteps,          \* rows of data.csv
    pc,                   \* position of the single thread of control
    caller,               \* the function that called step
    it,                   \* iterations done by the for loop of get_scaler
    val,                  \* value returned by the last play_one_episode
    \* MultiGridEnv
    initial_investment,
    grid_demand_history, cur_step, grid_owned, grid_demand, vehicle_in_hand,
    \* locals of step and _trade
    action, action_vec, sell_index, buy_index, can_buy, k, prev_val,
    \* what step returned last
    reward, done, cur_val,
    \* history variables for the properties: cash and holdings on entry of _trade,
    \* completed passes of the buy loop, step calls of the running episode,
    \* whether every action of the running episode was the all-hold action
    pre_cash, pre_owned, n_pass, ep_steps, held,
    \* ReplayBuffer
    obs1_buf, obs2_buf, acts_buf, rews_buf, done_buf, ptr, size, max_size,
    \* DQNAgent: epsilon in millionths, model = training steps applied to the
    \* parameters of the network
    epsilon, model, action_size,
    \* the target matrix the last replay call handed to train_one_step
    target_full,
    \* the indices drawn by the last sample_batch
    idxs,
    \* history variables for the properties: the last call made on the agent or
    \* the buffer, the arguments of the store calls in order, the slots written
    last_call, stored, written

envVars == <<initial_investment, grid_demand_history, cur_step, grid_owned, grid_demand, vehicle_in_hand>>
frameVars == <<action, action_vec, sell_index, buy_index, can_buy, k, prev_val>>
resultVars == <<reward, done, cur_val>>
mainVars == <<mode, n_timesteps, pc, caller, it, val>>
histVars == <<pre_cash, pre_owned, n_pass, ep_steps, held>>
bufVars == <<obs1_buf, obs2_buf, acts_buf, rews_buf, done_buf, ptr, size, max_size>>
netVars == <<action_size, target_full>>
agentVars == <<bufVars, epsilon, model, idxs, last_call, stored, written, netVars>>
runVars == <<mainVars, envVars, frameVars, resultVars, histVars>>
vars == <<runVars, agentVars>>

\* ------------------------------------------------------------- helpers
Min(a, b) == IF a < b THEN a ELSE b

RECURSIVE Pow(_, _)
Pow(b, e) == IF e = 0 THEN 1 ELSE b * Pow(b, e - 1)

RECURSIVE Dot(_, _)
\* numpy dot of two vectors of the same length
Dot(u, v) == IF u = <<>> THEN 0 ELSE Head(u) * Head(v) + Dot(Tail(u), Tail(v))

Zeros(n) == [i \in 1..n |-> 0]

Valuations == {0, 1, MaxVal}
Rows(g) == [1..g -> Valuations]
Series(n, g) == [1..n -> Rows(g)]

\* ------------------------------------------------------- ReplayBuffer
\* a numpy uint8 cell: an integer is stored modulo 256, a bool as 0 or 1
Uint8(x) == x % 256
BoolToUint8(b) == IF b THEN 1 ELSE 0

\* ReplayBuffer.__init__: zeroed arrays of `cap` slots, ptr = size = 0
BufferInit(obs_dim, cap) ==
    /\ obs1_buf = [i \in 1..cap |-> Zeros(obs_dim)]
    /\ obs2_buf = [i \in 1..cap |-> Zeros(obs_dim)]
    /\ acts_buf = Zeros(cap)
    /\ rews_buf = Zeros(cap)
    /\ done_buf = Zeros(cap)
    /\ ptr = 0 /\ size = 0 /\ max_size = cap

\* the write pointer after a store
MutNextPtr(p, cap) == Min(p + 1, cap - 1)
NextPtr(p, cap) == (p + 1) % cap

\* ReplayBuffer.store(obs, act, rew, next_obs, done), t the five arguments
Store(t) ==
    /\ obs1_buf' = [obs1_buf EXCEPT ![ptr + 1] = t.s]
    /\ obs2_buf' = [obs2_buf EXCEPT ![ptr + 1] = t.s2]
    /\ acts_buf' = [acts_buf EXCEPT ![ptr + 1] = Uint8(t.a)]
    /\ rews_buf' = [rews_buf EXCEPT ![ptr + 1] = t.r]
    /\ done_buf' = [done_buf EXCEPT ![ptr + 1] = BoolToUint8(t.d)]
    /\ ptr' = NextPtr(ptr, max_size)
    /\ size' = Min(size + 1, max_size)
    /\ max_size' = max_size
    /\ written' = written \cup {ptr}

\* the values np.random.randint(0, size) draws from
MutSampleRange(sz, cap) == 0..(cap - 1)
SampleRange(sz, cap) == 0..(sz - 1)

\* ReplayBuffer.sample_batch(batch_size): batch_size indices drawn with
\* replacement (randint raises on an empty range, so nothing is drawn from
\* an empty buffer); the batch is the five arrays gathered at the indices
SampleBatch(batch_size) ==
    /\ SampleRange(size, max_size) # {}
    /\ idxs' \in [1..batch_size -> SampleRange(size, max_size)]

\* the transition held by slot i (0-based), as sample_batch gathers it
Slot(i) ==
    [s |-> obs1_buf[i + 1], s2 |-> obs2_buf[i + 1], a |-> acts_buf[i + 1],
     r |-> rews_buf[i + 1], d |-> done_buf[i + 1]]

\* the transitions given to store: observations of one dimension
TransitionSamples ==
    {[s |-> <<i>>, a |-> i, r |-> i + 1, s2 |-> <<i + 1>>, d |-> (i % 2 = 0)] : i \in 1..MaxT}

\* ----------------------------------------------------------- DQNAgent
\* epsilon = 1.0, epsilon_min = 0.01 and epsilon_decay = 0.995 in millionths;
\* a product is rounded to the nearest millionth (the float64 products of the
\* source compare with epsilon_min in the same way at every step)
EpsilonOne == 1000000
epsilon_min == 10000
DecayNum == 995
DecayDen == 1000
\* "agent.epsilon = 0.01" of the main block in test mode
TestEpsilon == 10000
Decay(e) == (e * DecayNum + (DecayDen \div 2)) \div DecayDen

\* gamma = 0.95
GammaNum == 95
GammaDen == 100

\* predict(model, states) for one state: the outputs of the network, one per
\* action.  The network is a function of its parameters and its input; a
\* fixed function of the number of training steps, the state and the column
\* stands for it, in multiples of GammaDen so that gamma times an output is
\* a whole number
Predict(m, s) ==
    LET base == Dot(s, s)
    IN [c \in 1..action_size |-> GammaDen * ((base + (m + 1) * c) % 5)]

\* np.amax over one row
MaxOf(row) ==
    LET vals == {row[c] : c \in DOMAIN row}
    IN CHOOSE v \in vals : \A w \in vals : v >= w

\* "rewards + (1 - done) * self.gamma * np.amax(...)" for one row, d the
\* uint8 done flag, q the largest output for the next state
MutTdTarget(r, d, q) == r + (GammaNum * q) \div GammaDen
TdTarget(r, d, q) == r + (1 - d) * ((GammaNum * q) \div GammaDen)

\* DQNAgent.__init__ with a memory of `cap` slots
AgentInit(obs_dim, act_dim, cap) ==
    /\ BufferInit(obs_dim, cap)
    /\ action_size = act_dim
    /\ target_full = <<>>
    /\ epsilon = EpsilonOne
    /\ model = 0
    /\ idxs = <<>>
    /\ last_call = <<"init">>
    /\ stored = <<>>
    /\ written = {}

\* "if self.memory.size < batch_size: return" lets replay go on
MutEnough(sz, batch_size) == sz >= 1
Enough(sz, batch_size) == ~(sz < batch_size)

\* "if self.epsilon > self.epsilon_min: self.epsilon *= self.epsilon_decay"
NextEpsilon(e) == IF e > epsilon_min THEN Decay(e) ELSE e

\* target_full of replay for the batch gathered at the indices ix:
\* "target_full = predict(self.model, states)", then
\* "target_full[np.arange(batch_size), actions] = target"
TargetFull(m, ix) ==
    [j \in 1..Len(ix) |->
        LET t == Slot(ix[j])
        IN [Predict(m, t.s) EXCEPT ![t.a + 1] = TdTarget(t.r, t.d, MaxOf(Predict(m, t.s2)))]]

\* DQNAgent.replay(batch_size): nothing below batch_size transitions; else a
\* batch is sampled, the targets are built, train_one_step updates the
\* parameters and epsilon decays
Replay(batch_size) ==
    IF ~Enough(size, batch_size)
    THEN UNCHANGED <<bufVars, epsilon, model, idxs, netVars>>
    ELSE /\ SampleBatch(batch_size)
         /\ target_full' = TargetFull(model, idxs')
         /\ action_size' = action_size
         /\ model' = model + 1
         /\ epsilon' = NextEpsilon(epsilon)
         /\ UNCHANGED bufVars

\* ------------------------------------------------------- MultiGridEnv
n_step == Len(grid_demand_history)
n_grid == Len(grid_demand_history[1])

\* itertools.product([0, 1, 2], repeat=r): one pool after the other, the
\* tuples built so far extended by each element of the pool, the new element
\* varying fastest
Pool == <<0, 1, 2>>
MutExtend(result) ==
    [j \in 1..(Len(result) * 3) |->
        Append(result[((j - 1) % Len(result)) + 1], Pool[((j - 1) \div Len(result)) + 1])]
Extend(result) ==
    [j \in 1..(Len(result) * 3) |->
        Append(result[((j - 1) \div 3) + 1], Pool[((j - 1) % 3) + 1])]

RECURSIVE Product(_)
Product(r) == IF r = 0 THEN << <<>> >> ELSE Extend(Product(r - 1))

ActionSpace(g) == 0..(Pow(3, g) - 1)
ActionList(g) == Product(g)
action_space == ActionSpace(n_grid)
action_list == ActionList(n_grid)

MutGetVal == Dot(grid_owned, grid_demand)
_get_val == Dot(grid_owned, grid_demand) + vehicle_in_hand

RECURSIVE MutIndexOf(_, _, _)
MutIndexOf(vec, m, i) ==
    IF i > Len(vec) THEN <<>>
    ELSE IF vec[i] >= m THEN <<i>> \o MutIndexOf(vec, m, i + 1)
    ELSE MutIndexOf(vec, m, i + 1)

\* the units of vec marked m, in increasing order (the enumerate loop)
RECURSIVE IndexOf(_, _, _)
IndexOf(vec, m, i) ==
    IF i > Len(vec) THEN <<>>
    ELSE IF vec[i] = m THEN <<i>> \o IndexOf(vec, m, i + 1)
    ELSE IndexOf(vec, m, i + 1)

\* the action vector that marks every unit hold
AllHold(vec) == \A i \in 1..Len(vec) : vec[i] = 1

\* where _trade goes after building sell_index and buy_index
MutAfterIndexing(sell, buy) ==
    IF buy # <<>> THEN "buy" ELSE IF sell # <<>> THEN "sell" ELSE "step_end"
AfterIndexing(sell, buy) ==
    IF sell # <<>> THEN "sell" ELSE IF buy # <<>> THEN "buy" ELSE "step_end"

\* step(a) up to the first statement of the trade: the assertion, prev_val,
\* the advance of cur_step, the read of the new row (an IndexError past the
\* end of the series), then the indexing of the action
StepCall(a) ==
    /\ a \in action_space
    /\ prev_val' = _get_val
    /\ cur_step' = cur_step + 1
    /\ action' = a
    /\ IF cur_step + 1 >= n_step
       THEN /\ pc' = "crashed"
            /\ UNCHANGED <<grid_demand, action_vec, sell_index, buy_index, can_buy, k,
                           pre_cash, pre_owned, n_pass>>
       ELSE /\ grid_demand' = grid_demand_history[cur_step + 2]
            /\ action_vec' = action_list[a + 1]
            /\ sell_index' = IndexOf(action_vec', 0, 1)
            /\ buy_index' = IndexOf(action_vec', 2, 1)
            /\ can_buy' = TRUE
            /\ k' = 1
            /\ pc' = AfterIndexing(sell_index', buy_index')
            /\ pre_cash' = vehicle_in_hand
            /\ pre_owned' = grid_owned
            /\ n_pass' = 0
    /\ UNCHANGED <<initial_investment, grid_demand_history, grid_owned, vehicle_in_hand>>

\* one iteration of "for i in sell_index"
MutSellCash(cash, demand, owned, i) == cash + owned[i]
SellCash(cash, demand, owned, i) == cash + demand[i] * owned[i]
SellOne ==
    /\ UNCHANGED agentVars
    /\ pc = "sell"
    /\ LET i == sell_index[k] IN
        /\ vehicle_in_hand' = SellCash(vehicle_in_hand, grid_demand, grid_owned, i)
        /\ grid_owned' = [grid_owned EXCEPT ![i] = 0]
    /\ IF k < Len(sell_index)
       THEN k' = k + 1 /\ pc' = "sell"
       ELSE k' = 1 /\ pc' = AfterIndexing(<<>>, buy_index)
    /\ UNCHANGED <<initial_investment, grid_demand_history, cur_step, grid_demand>>
    /\ UNCHANGED <<action, action_vec, sell_index, buy_index, can_buy, prev_val>>
    /\ UNCHANGED <<resultVars, mode, n_timesteps, caller, it, val, histVars>>

\* the affordability test of the buy loop
MutCanAfford(cash, price) == cash + MaxVal > price
CanAfford(cash, price) == cash > price

\* the test of "while can_buy" after a pass of the for loop
MutLoopAgain(flag) == TRUE
LoopAgain(flag) == flag

\* the buy loop cannot end: every buy-marked unit is free and there is cash
Spinning ==
    /\ vehicle_in_hand > 0
    /\ \A j \in 1..Len(buy_index) : grid_demand[buy_index[j]] = 0

\* the end of an iteration of "for i in buy_index": the next unit of the pass
\* or, after the last one, the test of "while can_buy"
Advance(flag) ==
    IF k < Len(buy_index)
    THEN k' = k + 1 /\ pc' = "buy" /\ n_pass' = n_pass
    ELSE /\ k' = 1
         /\ n_pass' = Min(n_pass + 1, MaxPass)
         /\ pc' = IF LoopAgain(flag) THEN "buy" ELSE "step_end"

\* "if self.vehicle_in_hand > self.grid_demand[i]" with its else branch
BuyTest ==
    /\ UNCHANGED agentVars
    /\ pc = "buy"
    /\ IF CanAfford(vehicle_in_hand, grid_demand[buy_index[k]])
       THEN pc' = "buy_one" /\ UNCHANGED <<can_buy, k, n_pass>>
       ELSE can_buy' = FALSE /\ Advance(FALSE)
    /\ UNCHANGED <<envVars, action, action_vec, sell_index, buy_index, prev_val>>
    /\ UNCHANGED <<resultVars, mode, n_timesteps, caller, it, val, pre_cash, pre_owned, ep_steps, held>>

\* the purchase of one unit
BuyUnit ==
    /\ UNCHANGED agentVars
    /\ pc = "buy_one"
    /\ LET i == buy_index[k] IN
        /\ grid_owned' =
            IF Spinning /\ grid_owned[i] >= MaxOwned
            THEN grid_owned
            ELSE [grid_owned EXCEPT ![i] = @ + 1]
        /\ vehicle_in_hand' = vehicle_in_hand - grid_demand[i]
    /\ Advance(can_buy)
    /\ UNCHANGED <<initial_investment, grid_demand_history, cur_step, grid_demand>>
    /\ UNCHANGED <<action, action_vec, sell_index, buy_index, can_buy, prev_val>>
    /\ UNCHANGED <<resultVars, mode, n_timesteps, caller, it, val, pre_cash, pre_owned, ep_steps, held>>

\* reset(): the fields of the environment over the series h
ResetEnv(h) ==
    /\ grid_demand_history' = h
    /\ cur_step' = 0
    /\ grid_owned' = Zeros(Len(h[1]))
    /\ grid_demand' = h[1]
    /\ vehicle_in_hand' = initial_investment
    /\ UNCHANGED initial_investment

\* the locals of step and _trade are gone when step returns
FrameGone ==
    /\ action' = 0 /\ action_vec' = <<>> /\ sell_index' = <<>> /\ buy_index' = <<>>
    /\ can_buy' = FALSE /\ k' = 1 /\ prev_val' = 0
    /\ pre_cash' = 0 /\ pre_owned' = <<>> /\ n_pass' = 0

\* the end of step: cur_val, reward, done, info
StepResult ==
    /\ cur_val' = _get_val
    /\ reward' = _get_val - prev_val
    /\ done' = (cur_step = n_step - 1)

\* -------------------------------------------------------- get_scaler
\* an iteration of the for loop: a random action of the action space, step
ScalerStep ==
    /\ UNCHANGED agentVars
    /\ pc = "scaler_loop"
    /\ \E a \in action_space : StepCall(a)
    /\ UNCHANGED <<resultVars, mode, n_timesteps, caller, it, val, ep_steps, held>>

\* step returns to get_scaler: break on done, else the next iteration, until
\* range(env.n_step) is used up; then the scaler is fitted
ScalerReturn ==
    /\ UNCHANGED agentVars
    /\ pc = "step_end" /\ caller = "get_scaler"
    /\ StepResult
    /\ FrameGone
    /\ it' = it + 1
    /\ pc' = IF done' \/ it + 1 >= n_step THEN "after_scaler" ELSE "scaler_loop"
    /\ UNCHANGED <<envVars, mode, n_timesteps, caller, val, ep_steps, held>>

\* ------------------------------------------------------ the main block
\* after get_scaler: in test mode the environment is made again over
\* test_data = data[n_train:], which has n_timesteps - n_train rows, epsilon is
\* set to 0.01 and the saved weights are loaded (no training step)
MainAfterScaler ==
    /\ pc = "after_scaler"
    /\ epsilon' = IF mode = "test" THEN TestEpsilon ELSE epsilon
    /\ UNCHANGED <<bufVars, model, idxs, last_call, stored, written, netVars>>
    /\ IF mode = "test"
       THEN \E test_data \in Series(n_timesteps - n_step, n_grid) : ResetEnv(test_data)
       ELSE UNCHANGED envVars
    /\ pc' = "ep_start"
    /\ caller' = "play_one_episode"
    /\ it' = 0
    /\ reward' = 0 /\ done' = FALSE /\ cur_val' = 0
    /\ UNCHANGED <<mode, n_timesteps, val, frameVars, histVars>>

\* ---------------------------------------------------- play_one_episode
\* the head of play_one_episode: reset, done = False
EpisodeStart ==
    /\ UNCHANGED agentVars
    /\ pc = "ep_start"
    /\ ResetEnv(grid_demand_history)
    /\ done' = FALSE /\ reward' = 0 /\ cur_val' = 0
    /\ ep_steps' = 0
    /\ held' = TRUE
    /\ pc' = "ep_loop"
    /\ UNCHANGED <<mode, n_timesteps, caller, it, val, frameVars, pre_cash, pre_owned, n_pass>>

\* an iteration of "while not done": agent.act returns an action of the
\* action space (random below epsilon, else the argmax of the predictions)
EpisodeStep ==
    /\ UNCHANGED agentVars
    /\ pc = "ep_loop"
    /\ \E a \in action_space : StepCall(a) /\ held' = (held /\ AllHold(action_list[a + 1]))
    /\ ep_steps' = ep_steps + 1
    /\ UNCHANGED <<resultVars, mode, n_timesteps, caller, it, val>>

\* step returns to play_one_episode: the loop again, or return info['cur_val'].
\* In train mode the loop body also calls agent.update_replay_memory and
\* agent.replay; they change fields of the agent only and are the actions
\* UpdateReplayMemory and ReplayCall of SpecAgent
EpisodeReturn ==
    /\ UNCHANGED agentVars
    /\ pc = "step_end" /\ caller = "play_one_episode"
    /\ StepResult
    /\ FrameGone
    /\ IF done' THEN pc' = "ep_start" /\ val' = cur_val'
                ELSE pc' = "ep_loop" /\ val' = val
    /\ UNCHANGED <<envVars, mode, n_timesteps, caller, it, ep_steps, held>>

\* the episodes are over: the weights, the scaler and the values are saved
MainExit ==
    /\ UNCHANGED agentVars
    /\ pc = "ep_start"
    /\ pc' = "exit"
    /\ UNCHANGED <<mode, n_timesteps, caller, it, val, envVars, frameVars, resultVars, histVars>>

\* the main block up to get_scaler: the data, the split, the environment
\* over train_data = data[:n_timesteps // 2], already reset
Init ==
    /\ mode \in {"train", "test"}
    /\ n_timesteps \in 2..MaxRows
    /\ \E g \in GridCounts :
        /\ grid_demand_history \in Series(n_timesteps \div 2, g)
        /\ grid_owned = Zeros(g)
        /\ AgentInit(2 * g + 1, Pow(3, g), MaxCap)
    /\ initial_investment \in {0, 1, MaxCash}
    /\ cur_step = 0
    /\ grid_demand = grid_demand_history[1]
    /\ vehicle_in_hand = initial_investment
    /\ pc = "scaler_loop" /\ caller = "get_scaler" /\ it = 0 /\ val = 0
    /\ action = 0 /\ action_vec = <<>> /\ sell_index = <<>> /\ buy_index = <<>>
    /\ can_buy = FALSE /\ k = 1 /\ prev_val = 0
    /\ reward = 0 /\ done = FALSE /\ cur_val = 0
    /\ pre_cash = 0 /\ pre_owned = <<>> /\ n_pass = 0 /\ ep_steps = 0 /\ held = FALSE

Next ==
    \/ ScalerStep
    \/ ScalerReturn
    \/ MainAfterScaler
    \/ EpisodeStart
    \/ EpisodeStep
    \/ EpisodeReturn
    \/ SellOne
    \/ BuyTest
    \/ BuyUnit
    \/ MainExit

Spec == Init /\ [][Next]_vars

\* the program is one thread that runs whenever it can
FairSpec == Spec /\ WF_vars(Next)

\* ---------------------------------------- the run of a fixed policy
\* an iteration of "while not done" where the action chosen is all-hold
HoldEpisodeStep == EpisodeStep /\ held'

\* the run with the all-hold policy in the episodes (get_scaler draws its
\* actions at random as before)
NextHold ==
    \/ ScalerStep
    \/ ScalerReturn
    \/ MainAfterScaler
    \/ EpisodeStart
    \/ HoldEpisodeStep
    \/ EpisodeReturn
    \/ SellOne
    \/ BuyTest
    \/ BuyUnit
    \/ MainExit

\* the single thread goes on whenever it can; at every position at most one
\* action is enabled, and those of the episode loop are the call of step and
\* its return
SpecHold ==
    Init /\ [][NextHold]_vars /\ WF_vars(HoldEpisodeStep) /\ WF_vars(EpisodeReturn)

\* ------------------------------------- the environment on its own
\* the integers given to step where the environment is called directly: the
\* action space and its two neighbours
ActionArgs(g) == (-1)..Pow(3, g)

\* "assert action in self.action_space" fails: AssertionError is raised by
\* the first statement of step
MutStepRaise(a) ==
    /\ a \notin action_space
    /\ pc' = "raised"
    /\ action' = a
    /\ cur_step' = Min(cur_step + 1, n_step - 1)
    /\ grid_demand' = grid_demand_history[cur_step' + 1]
    /\ UNCHANGED <<initial_investment, grid_demand_history, grid_owned, vehicle_in_hand>>
    /\ UNCHANGED <<action_vec, sell_index, buy_index, can_buy, k, prev_val>>
    /\ UNCHANGED <<pre_cash, pre_owned, n_pass>>
StepRaise(a) ==
    /\ a \notin action_space
    /\ pc' = "raised"
    /\ action' = a
    /\ UNCHANGED envVars
    /\ UNCHANGED <<action_vec, sell_index, buy_index, can_buy, k, prev_val>>
    /\ UNCHANGED <<pre_cash, pre_owned, n_pass>>

\* a call of step with any of the integers
EnvStep ==
    /\ UNCHANGED agentVars
    /\ pc \in {"idle", "raised"}
    /\ \E a \in ActionArgs(n_grid) : StepCall(a) \/ StepRaise(a)
    /\ UNCHANGED <<resultVars, mode, n_timesteps, caller, it, val, ep_steps, held>>

\* step returns (next_obs, reward, done, info)
EnvReturn ==
    /\ UNCHANGED agentVars
    /\ pc = "step_end" /\ caller = "driver"
    /\ StepResult
    /\ FrameGone
    /\ pc' = "idle"
    /\ UNCHANGED <<envVars, mode, n_timesteps, caller, it, val, ep_steps, held>>

\* a call of reset
EnvReset ==
    /\ UNCHANGED agentVars
    /\ pc \in {"idle", "raised"}
    /\ ResetEnv(grid_demand_history)
    /\ pc' = "idle"
    /\ UNCHANGED <<mode, n_timesteps, caller, it, val, frameVars, resultVars, histVars>>

\* MultiGridEnv(data, initial_investment) over a series of two rows
InitEnv ==
    /\ mode = "train" /\ n_timesteps = 0 /\ pc = "idle" /\ caller = "driver"
    /\ it = 0 /\ val = 0
    /\ \E g \in GridCounts :
        /\ grid_demand_history \in Series(2, g)
        /\ grid_owned = Zeros(g)
        /\ AgentInit(2 * g + 1, Pow(3, g), 1)
    /\ initial_investment \in {1, MaxCash}
    /\ cur_step = 0
    /\ grid_demand = grid_demand_history[1]
    /\ vehicle_in_hand = initial_investment
    /\ action = 0 /\ action_vec = <<>> /\ sell_index = <<>> /\ buy_index = <<>>
    /\ can_buy = FALSE /\ k = 1 /\ prev_val = 0
    /\ reward = 0 /\ done = FALSE /\ cur_val = 0
    /\ pre_cash = 0 /\ pre_owned = <<>> /\ n_pass = 0 /\ ep_steps = 0 /\ held = FALSE

NextEnv ==
    \/ EnvStep
    \/ EnvReturn
    \/ EnvReset
    \/ SellOne
    \/ BuyTest
    \/ BuyUnit

SpecEnv == InitEnv /\ [][NextEnv]_vars

\* C14: a call of step (any move from between two calls that is not a reset)
\* with an integer outside the action space raises at once: it leaves every field of the environment and the last results as
\* they were (no step counted, no row read, no trade), and no such integer
\* ever gets into a trade in place of an action
C14_InvalidAction ==
    [][/\ (pc \in {"idle", "raised"} /\ pc' # "idle" /\ action' \notin action_space)
            => /\ pc' = "raised"
               /\ UNCHANGED <<envVars, resultVars, action_vec, sell_index, buy_index>>
       /\ (pc' \in {"sell", "buy", "buy_one", "step_end", "crashed"})
            => action' \in action_space]_vars

\* C14 witness: step(9) was refused by an environment of two units that
\* holds units after a step of its episode
C14_Witness ==
    /\ pc = "raised" /\ action = Pow(3, n_grid) /\ n_grid = 2
    /\ cur_step = 1 /\ grid_owned # Zeros(2)

\* ------------------------------------- the replay buffer on its own
\* no environment is run where the buffer or the agent is driven directly
EnvAbsent ==
    /\ mode = "train" /\ n_timesteps = 0 /\ pc = "agent" /\ caller = "none"
    /\ it = 0 /\ val = 0
    /\ initial_investment = 0 /\ grid_demand_history = <<>> /\ cur_step = 0
    /\ grid_owned = <<>> /\ grid_demand = <<>> /\ vehicle_in_hand = 0
    /\ action = 0 /\ action_vec = <<>> /\ sell_index = <<>> /\ buy_index = <<>>
    /\ can_buy = FALSE /\ k = 1 /\ prev_val = 0
    /\ reward = 0 /\ done = FALSE /\ cur_val = 0
    /\ pre_cash = 0 /\ pre_owned = <<>> /\ n_pass = 0 /\ ep_steps = 0 /\ held = FALSE

\* a call of store; the batch a sample_batch returned before is not kept
BufStore ==
    /\ Len(stored) < MaxStores
    /\ \E t \in TransitionSamples : Store(t) /\ stored' = Append(stored, t)
    /\ last_call' = <<"store">>
    /\ idxs' = <<>> /\ target_full' = <<>>
    /\ UNCHANGED <<epsilon, model, action_size, runVars>>

\* a call of sample_batch
BufSample ==
    /\ \E b \in 1..MaxBatch : SampleBatch(b) /\ last_call' = <<"sample_batch", b>>
    /\ UNCHANGED <<bufVars, epsilon, model, netVars, stored, written, runVars>>

InitBuf == EnvAbsent /\ \E cap \in 1..MaxCap : AgentInit(1, MaxT + 1, cap)
NextBuf == BufStore \/ BufSample
SpecBuf == InitBuf /\ [][NextBuf]_vars

\* ------------------------------------------------ the agent on its own
\* DQNAgent.update_replay_memory
UpdateReplayMemory ==
    /\ \E t \in TransitionSamples : Store(t)
    /\ last_call' = <<"store">>
    /\ idxs' = <<>> /\ target_full' = <<>>
    /\ UNCHANGED <<epsilon, model, action_size, stored, runVars>>

\* a call of replay, while fewer than `cap` training steps were made
ReplayCall(cap) ==
    /\ model < cap
    /\ \E b \in 1..MaxBatch : Replay(b) /\ last_call' = <<"replay", b>>
    /\ UNCHANGED <<stored, written, runVars>>

AgentReplay == ReplayCall(MaxTrain)
InitAgent == EnvAbsent /\ \E cap \in 1..MaxCap : AgentInit(1, MaxT + 1, cap)
NextAgent == UpdateReplayMemory \/ AgentReplay
SpecAgent == InitAgent /\ [][NextAgent]_vars

\* the agent trained until epsilon stops changing, on a memory of one slot
LongReplay == ReplayCall(MaxDecay)
InitEps == EnvAbsent /\ AgentInit(1, MaxT + 1, 1)
NextEps == UpdateReplayMemory \/ LongReplay
SpecEps == InitEps /\ [][NextEps]_vars

\* ------------------------------------ the run with the agent's memory
\* batch_size of the main block (32 in the source)
batch_size == MaxBatch

\* _get_obs: holdings, the current row, cash
Obs(owned, demand, cash) == owned \o demand \o <<cash>>

\* "if is_train == 'train'" of play_one_episode
MutIsTrain(m) == TRUE
IsTrain(m) == m = "train"

\* where play_one_episode goes after an iteration of "while not done"
AfterIteration(d) == IF d THEN "ep_start" ELSE "ep_loop"

\* an iteration of "while not done" while fewer than MaxTrain training steps
\* were made
TrainStep ==
    /\ model < MaxTrain
    /\ EpisodeStep

\* step returns to play_one_episode; in train mode the transition (the
\* observation before the step, the action, the reward, the observation
\* after it, done) goes to update_replay_memory and replay is next; the
\* observations are kept as _get_obs made them (scaler.transform shifts and
\* scales each coordinate by constants fitted once)
TrainReturn ==
    /\ pc = "step_end" /\ caller = "play_one_episode"
    /\ StepResult
    /\ FrameGone
    /\ IF IsTrain(mode)
       THEN /\ Store([s |-> Obs(pre_owned, grid_demand_history[cur_step], pre_cash),
                      a |-> action, r |-> reward',
                      s2 |-> Obs(grid_owned, grid_demand, vehicle_in_hand),
                      d |-> done'])
            /\ last_call' = <<"store">>
            /\ idxs' = <<>> /\ target_full' = <<>>
            /\ UNCHANGED <<epsilon, model, action_size, stored>>
            /\ pc' = "replay" /\ val' = val
       ELSE /\ UNCHANGED agentVars
            /\ pc' = AfterIteration(done')
            /\ val' = IF done' THEN cur_val' ELSE val
    /\ UNCHANGED <<envVars, mode, n_timesteps, caller, it, ep_steps, held>>

\* agent.replay(batch_size) of the loop body, then the loop again or
\* return info['cur_val']
TrainReplay ==
    /\ pc = "replay"
    /\ Replay(batch_size)
    /\ last_call' = <<"replay", batch_size>>
    /\ pc' = AfterIteration(done)
    /\ val' = IF done THEN cur_val ELSE val
    /\ UNCHANGED <<stored, written>>
    /\ UNCHANGED <<envVars, frameVars, resultVars, histVars, mode, n_timesteps, caller, it>>

\* the values given to --mode: argparse takes any string
Modes == {"train", "test", "demo"}

\* the main block up to get_scaler, for one unit and a train_data of two rows
InitMode ==
    /\ mode \in Modes
    /\ n_timesteps \in 4..MaxRows
    /\ grid_demand_history \in Series(n_timesteps \div 2, 1)
    /\ grid_owned = Zeros(1)
    /\ AgentInit(3, 3, MaxCap)
    /\ initial_investment \in {1, MaxCash}
    /\ cur_step = 0
    /\ grid_demand = grid_demand_history[1]
    /\ vehicle_in_hand = initial_investment
    /\ pc = "scaler_loop" /\ caller = "get_scaler" /\ it = 0 /\ val = 0
    /\ action = 0 /\ action_vec = <<>> /\ sell_index = <<>> /\ buy_index = <<>>
    /\ can_buy = FALSE /\ k = 1 /\ prev_val = 0
    /\ reward = 0 /\ done = FALSE /\ cur_val = 0
    /\ pre_cash = 0 /\ pre_owned = <<>> /\ n_pass = 0 /\ ep_steps = 0 /\ held = FALSE

NextMode ==
    \/ ScalerStep
    \/ ScalerReturn
    \/ MainAfterScaler
    \/ EpisodeStart
    \/ TrainStep
    \/ TrainReturn
    \/ TrainReplay
    \/ SellOne
    \/ BuyTest
    \/ BuyUnit
    \/ MainExit

SpecMode == InitMode /\ [][NextMode]_vars

\* the agent's fields that store and replay change
learnVars == <<bufVars, model, idxs, written>>

\* C11: in a run in test mode, while the episodes are played, no store and no
\* replay is made (buffer, sampled batch and parameters stay as built, the
\* buffer empty) and epsilon is 0.01 throughout; in any run, the buffer, the
\* parameters or epsilon change in train mode only, but for the one
\* assignment of 0.01 to epsilon before the episodes of a test run
C11_TestIsolation ==
    [][/\ (mode = "test" /\ caller = "play_one_episode")
            => /\ UNCHANGED <<learnVars, epsilon>>
               /\ epsilon = TestEpsilon /\ size = 0 /\ model = 0
       /\ (learnVars' # learnVars) => mode = "train"
       /\ (epsilon' # epsilon)
            => \/ mode = "train" /\ pc = "replay"
               \/ mode = "test" /\ pc = "after_scaler" /\ epsilon' = TestEpsilon]_vars

\* C11 witness: an episode of two steps of a test run has returned
C11_Witness ==
    /\ mode = "test" /\ caller = "play_one_episode"
    /\ pc = "ep_start" /\ done /\ ep_steps = 2
    /\ epsilon = TestEpsilon /\ size = 0 /\ stored = <<>>

\* C16: a run whose mode is neither train nor test does no work: get_scaler
\* makes no step, no episode is started and nothing is saved
C16_InvalidModeRejected ==
    mode \notin {"train", "test"}
        => /\ pc = "scaler_loop" /\ it = 0 /\ cur_step = 0
           /\ caller = "get_scaler"

\* ------------------------------- the agent of a wide action space
\* numbers of units of the environment the agent is made for: the action
\* space has 3, 243 and 729 actions
WideGrids == {1, 5, 6}

\* the actions stored: the ends of the action space and, where the space
\* has them, the last index a uint8 holds and the next
ActSamples(n) == {a \in {0, 255, 256, n - 1} : a < n}

\* update_replay_memory with an action of the action space, while the
\* memory is not full
LearnStore ==
    /\ Len(stored) < max_size
    /\ \E t \in TransitionSamples, a \in ActSamples(action_size) :
        LET ta == [t EXCEPT !.a = a]
        IN Store(ta) /\ stored' = Append(stored, ta)
    /\ last_call' = <<"store">>
    /\ idxs' = <<>> /\ target_full' = <<>>
    /\ UNCHANGED <<epsilon, model, action_size, runVars>>

\* an agent with a memory of two slots
InitLearn == EnvAbsent /\ \E g \in WideGrids : AgentInit(1, Pow(3, g), 2)
NextLearn == LearnStore \/ AgentReplay
SpecLearn == InitLearn /\ [][NextLearn]_vars

\* C15: in a replay call that trains, row j of the target matrix is
\* predict(s_j) of the parameters before the training step in every column
\* but the one of the action a_j of row j of the batch, and there it is
\* r_j + (1 - done_j) * gamma * max predict(s'_j), which is r_j when done_j
\* is set
C15_TargetMasking ==
    [][(last_call'[1] = "replay" /\ model' # model)
        => /\ Len(target_full') = last_call'[2]
           /\ \A j \in 1..Len(target_full') :
                LET t == Slot(idxs'[j])
                    row == target_full'[j]
                    q == Predict(model, t.s)
                IN /\ DOMAIN row = 1..action_size
                   /\ t.a \in 0..(action_size - 1)
                   /\ row = [q EXCEPT ![t.a + 1] = row[t.a + 1]]
                   /\ t.d = 0 =>
                        row[t.a + 1] * GammaDen
                            = t.r * GammaDen + GammaNum * MaxOf(Predict(model, t.s2))
                   /\ t.d = 1 => row[t.a + 1] = t.r]_vars

\* C15 witness: a training replay of a batch of two, one row done and one
\* not, both targets differing from the predictions they replace
C15_Witness ==
    /\ last_call = <<"replay", 2>> /\ model = 1 /\ Len(target_full) = 2
    /\ Slot(idxs[1]).d = 1 /\ Slot(idxs[2]).d = 0
    /\ \A j \in 1..2 :
        target_full[j][Slot(idxs[j]).a + 1] # Predict(0, Slot(idxs[j]).s)[Slot(idxs[j]).a + 1]

\* C20: the action a slot holds is the action that was given to store for
\* it (so sample_batch reads it back and replay uses it as the column)
C20_ActionFidelity ==
    \A p \in 1..Len(stored) : Slot(p - 1).a = stored[p].a

\* --------------------------------------------- the buffer and the agent
\* what a slot holds of a transition given to store
AsStored(t) ==
    [s |-> t.s, s2 |-> t.s2, a |-> Uint8(t.a), r |-> t.r, d |-> BoolToUint8(t.d)]

\* C1: once C + kk transitions are stored in a buffer of capacity C, size is
\* C and the slots hold exactly the transitions stored at positions
\* kk .. C+kk-1, position p in slot p mod C; the oldest survivor, the one of
\* position kk, is in the slot the next store overwrites
C1_Wraparound ==
    Len(stored) >= max_size =>
        LET n == Len(stored)
            kk == n - max_size
        IN /\ size = max_size
           /\ \A p \in kk..(n - 1) : Slot(p % max_size) = AsStored(stored[p + 1])
           /\ ptr = kk % max_size

\* C1 witness: a buffer of two slots after four stores, the two evicted
\* transitions differing from the two that survive
C1_Witness ==
    /\ max_size = 2 /\ Len(stored) = 4
    /\ stored[1] # stored[3] /\ stored[2] # stored[4]

\* C9: 0 <= size <= C, 0 <= ptr < C, ptr is the number of stores mod C, and
\* every index drawn by sample_batch is below size and names a slot that
\* store has written
C9_BufferBounds ==
    /\ size \in 0..max_size
    /\ ptr \in 0..(max_size - 1)
    /\ ptr = Len(stored) % max_size
    /\ size = Min(Len(stored), max_size)
    /\ \A j \in 1..Len(idxs) : idxs[j] \in 0..(size - 1) /\ idxs[j] \in written

\* C9 witness: a batch of two drawn from a buffer that is not full yet
C9_Witness ==
    /\ last_call[1] = "sample_batch" /\ Len(idxs) = 2
    /\ size >= 1 /\ size < max_size
    /\ idxs[1] # idxs[2]

\* C3: epsilon is never below epsilon_min (so that it can end at epsilon_min
\* exactly and stay there)
C3_EpsilonFloor == epsilon >= epsilon_min

\* C10: a replay call with fewer than batch_size transitions changes
\* nothing (no batch drawn, no training step, epsilon, buffer and parameters
\* as before); epsilon changes only in a replay call that trains, by one
\* multiplication with the decay factor
C10_ReplayNoOp ==
    [][/\ (last_call'[1] = "replay" /\ size < last_call'[2])
            => UNCHANGED <<bufVars, epsilon, model, idxs>>
       /\ (epsilon' # epsilon)
            => /\ last_call'[1] = "replay" /\ size >= last_call'[2]
               /\ model' = model + 1
               /\ epsilon' = Decay(epsilon)
       /\ (model' # model)
            => last_call'[1] = "replay" /\ size >= last_call'[2]]_vars

\* C10 witness: replay(2) was called on a buffer holding one transition
C10_Witness ==
    /\ last_call = <<"replay", 2>> /\ size = 1
    /\ model = 0 /\ epsilon = EpsilonOne /\ idxs = <<>>

\* ------------------------------------------- the action decoding alone
\* an environment of g units, and the lookup "action_vec =
\* self.action_list[action]" of _trade for an action of its action space
Decode ==
    /\ pc \in {"made", "decoded"}
    /\ \E a \in action_space : action' = a /\ action_vec' = action_list[a + 1]
    /\ pc' = "decoded"
    /\ UNCHANGED <<mode, n_timesteps, caller, it, val, envVars>>
    /\ UNCHANGED <<sell_index, buy_index, can_buy, k, prev_val, resultVars, histVars>>
    /\ UNCHANGED agentVars

InitEnc ==
    /\ mode = "train" /\ n_timesteps = 2 /\ pc = "made" /\ caller = "none"
    /\ it = 0 /\ val = 0
    /\ \E g \in 1..MaxG :
        /\ grid_demand_history = <<Zeros(g)>>
        /\ grid_owned = Zeros(g)
        /\ grid_demand = Zeros(g)
        /\ AgentInit(2 * g + 1, Pow(3, g), 1)
    /\ initial_investment = MaxCash /\ cur_step = 0 /\ vehicle_in_hand = MaxCash
    /\ action = 0 /\ action_vec = <<>> /\ sell_index = <<>> /\ buy_index = <<>>
    /\ can_buy = FALSE /\ k = 1 /\ prev_val = 0
    /\ reward = 0 /\ done = FALSE /\ cur_val = 0
    /\ pre_cash = 0 /\ pre_owned = <<>> /\ n_pass = 0 /\ ep_steps = 0 /\ held = FALSE
NextEnc == Decode
SpecEnc == InitEnc /\ [][NextEnc]_vars

RECURSIVE Encode(_)
\* the number whose base-3 digits are vec, the digit of the first unit first
Encode(vec) ==
    IF vec = <<>> THEN 0
    ELSE vec[Len(vec)] + 3 * Encode(SubSeq(vec, 1, Len(vec) - 1))

\* C6: action_list has 3^G entries, entry a is a vector of {0,1,2}^G whose
\* base-3 reading, unit 0 most significant, is a (so the entries are
\* distinct), every vector of {0,1,2}^G is the entry of its reading, and the
\* vector _trade looks up for an action re-encodes to that action
C6_ActionBijection ==
    /\ Len(action_list) = Pow(3, n_grid)
    /\ \A a \in action_space :
        /\ action_list[a + 1] \in [1..n_grid -> {0, 1, 2}]
        /\ Encode(action_list[a + 1]) = a
    /\ \A v \in [1..n_grid -> {0, 1, 2}] :
        Encode(v) \in action_space /\ action_list[Encode(v) + 1] = v
    /\ pc = "decoded" => Encode(action_vec) = action

\* C6 witness: action 5 of two units decoded to (hold, buy)
C6_Witness == pc = "decoded" /\ action = 5 /\ action_vec = <<1, 2>>

\* ------------------------------------------------ the trade (_trade)
RECURSIVE SumIdx(_, _, _)
\* the sum of u[i] * v[i] over the units i listed in idx
SumIdx(idx, u, v) ==
    IF idx = <<>> THEN 0 ELSE u[Head(idx)] * v[Head(idx)] + SumIdx(Tail(idx), u, v)

Marked(idx) == {idx[j] : j \in 1..Len(idx)}

\* cash and holdings once every sell of the running trade is done, from the
\* cash and holdings on entry of _trade and the row already advanced
CashAfterSells == pre_cash + SumIdx(sell_index, pre_owned, grid_demand)
OwnedAfterSells ==
    [i \in 1..Len(pre_owned) |-> IF i \in Marked(sell_index) THEN 0 ELSE pre_owned[i]]
\* what the buy loop has spent so far
Spent ==
    SumIdx(buy_index, [i \in 1..Len(pre_owned) |-> grid_owned[i] - OwnedAfterSells[i]],
           grid_demand)

\* C2: when _trade returns from an action with a buy-marked unit, on a row
\* of positive valuations, no buy-marked unit is affordable any more
C2_BuyLoopComplete ==
    (/\ pc = "step_end"
     /\ buy_index # <<>>
     /\ \A i \in 1..Len(grid_demand) : grid_demand[i] > 0)
    => \A i \in Marked(buy_index) : ~(vehicle_in_hand > grid_demand[i])

\* C4: at every affordability test of an action that marks a unit sell and a
\* unit buy, every sell-marked unit is already sold (holdings 0) and the cash
\* tested is the cash on entry plus all sell proceeds at the advanced row,
\* less what the buy loop has spent so far
C4_SellsBeforeBuys ==
    (pc \in {"buy", "buy_one"} /\ sell_index # <<>>)
    => /\ \A i \in Marked(sell_index) : grid_owned[i] = 0
       /\ grid_demand = grid_demand_history[cur_step + 1]
       /\ vehicle_in_hand = CashAfterSells - Spent

\* C4 witness: the first affordability test of a buy, on a row of positive
\* valuations, with sell proceeds credited that make the buy affordable
C4_Witness ==
    /\ pc = "buy" /\ sell_index # <<>> /\ k = 1 /\ n_pass = 0
    /\ \A i \in 1..Len(grid_demand) : grid_demand[i] > 0
    /\ grid_owned = OwnedAfterSells
    /\ CashAfterSells > pre_cash
    /\ vehicle_in_hand > grid_demand[buy_index[1]]
    /\ ~(pre_cash > grid_demand[buy_index[1]])

\* every buy-marked unit costs more than the cash left after the sells
AllTooDear ==
    /\ buy_index # <<>>
    /\ \A i \in Marked(buy_index) : grid_demand[i] > CashAfterSells

\* C5: when every buy-marked unit costs more than the cash after the sells,
\* the buy loop is in its first pass as long as it runs, and it ends after
\* that one pass with no purchase: holdings and cash are as the sells left
\* them
C5_NothingAffordable ==
    /\ (pc = "buy" /\ AllTooDear)
        => n_pass = 0 /\ can_buy = (k = 1) /\ k <= Len(buy_index)
           /\ vehicle_in_hand = CashAfterSells /\ grid_owned = OwnedAfterSells
    /\ AllTooDear => pc # "buy_one"
    /\ (pc = "step_end" /\ AllTooDear)
        => n_pass = 1 /\ vehicle_in_hand = CashAfterSells /\ grid_owned = OwnedAfterSells

\* C5 witness: the trade is over, nothing was affordable, with cash in hand
C5_Witness ==
    /\ pc = "step_end" /\ AllTooDear /\ n_pass = 1
    /\ vehicle_in_hand > 0 /\ Len(buy_index) = 2

\* the step that is running was called with the all-hold action
HoldStep == action_vec # <<>> /\ AllHold(action_vec)

\* C12: a step with the all-hold action goes from the call to the end of the
\* trade changing cur_step (one more) and the row (the next of the series)
\* only; when its trade is over, holdings and cash are those on entry of the
\* step, and the value differs from the value before the step by the
\* holdings times the change of the valuations
C12_PureHold ==
    /\ [](pc = "step_end" /\ HoldStep
            => /\ grid_owned = pre_owned
               /\ vehicle_in_hand = pre_cash
               /\ grid_demand = grid_demand_history[cur_step + 1]
               /\ _get_val - prev_val =
                    Dot(grid_owned, grid_demand) - Dot(grid_owned, grid_demand_history[cur_step]))
    /\ [][(pc # "step_end" /\ pc' = "step_end" /\ AllHold(action_vec'))
            => /\ pc \in {"scaler_loop", "ep_loop"}
               /\ cur_step' = cur_step + 1
               /\ UNCHANGED <<initial_investment, grid_demand_history, grid_owned,
                              vehicle_in_hand>>]_vars

\* C12 witness: an all-hold step is over with units held whose valuations
\* have changed
C12_Witness ==
    /\ pc = "step_end" /\ HoldStep
    /\ \E i \in 1..Len(grid_owned) : grid_owned[i] > 0
    /\ _get_val # prev_val

\* C13: in an episode in which every action is all-hold, holdings are all
\* zero and cash is the initial investment, every step has returned reward 0
\* and value = initial investment, done exactly at step n_step - 1; the
\* episode ends, after n_step - 1 steps, and play_one_episode returns the
\* initial investment
C13_AllHoldEpisode ==
    /\ [](held => /\ pc \in {"ep_loop", "step_end", "ep_start", "exit"}
                  /\ grid_owned = Zeros(n_grid)
                  /\ vehicle_in_hand = initial_investment
                  /\ ep_steps <= n_step - 1)
    /\ [](held /\ pc # "step_end"
            => /\ reward = 0
               /\ ep_steps >= 1 => cur_val = initial_investment
               /\ done = (ep_steps = n_step - 1)
               /\ done = (pc # "ep_loop")
               /\ done => val = initial_investment)
    /\ (pc = "ep_loop")
        ~> (held /\ pc = "ep_start" /\ ep_steps = n_step - 1 /\ val = initial_investment)

\* C13 witness: an all-hold episode of two steps over two units has ended,
\* the valuations differing from row to row
C13_Witness ==
    /\ held /\ pc = "ep_start" /\ done /\ ep_steps = 2 /\ n_grid = 2
    /\ grid_demand_history[1] # grid_demand_history[2]
    /\ grid_demand_history[2] # grid_demand_history[3]
    /\ val = MaxCash

\* a trade is running or has just ended
InTrade == pc \in {"sell", "buy", "buy_one", "step_end"}

\* C17: all through _trade the value, holdings times the advanced row plus
\* cash, is the value the holdings and cash on entry have at that row; so the
\* reward of the step is the holdings on entry times the change of the
\* valuations, whatever the action, and the value before a step that follows
\* another in the same loop is the value the step before returned
C17_ValueNeutral ==
    /\ [](InTrade
            => /\ _get_val = Dot(pre_owned, grid_demand) + pre_cash
               /\ prev_val = Dot(pre_owned, grid_demand_history[cur_step]) + pre_cash)
    /\ [][/\ (pc = "step_end" /\ pc' # "step_end")
                => reward' = Dot(pre_owned, grid_demand) - Dot(pre_owned, grid_demand_history[cur_step])
          /\ ((pc = "ep_loop" /\ ep_steps >= 1) \/ (pc = "scaler_loop" /\ it >= 1))
                => (pc' = pc \/ prev_val' = cur_val)]_vars

\* C17 witness: a trade that sold one unit and bought another has ended, the
\* valuations of the holdings on entry having changed
C17_Witness ==
    /\ pc = "step_end" /\ sell_index # <<>> /\ buy_index # <<>>
    /\ grid_owned # pre_owned /\ vehicle_in_hand # pre_cash
    /\ \E i \in Marked(buy_index) : grid_owned[i] > pre_owned[i]
    /\ \E i \in Marked(sell_index) : pre_owned[i] > 0
    /\ _get_val # prev_val

\* C18: cash is never negative and every holding is a whole number >= 0
\* (initial investment >= 0, valuations >= 0)
C18_NonNegative ==
    /\ vehicle_in_hand >= 0
    /\ \A i \in 1..Len(grid_owned) : grid_owned[i] \in Nat

\* C18 witness: a purchase at the highest valuation has left the least cash
\* a purchase can leave
C18_Witness ==
    /\ pc = "step_end" /\ buy_index # <<>>
    /\ \E i \in Marked(buy_index) : grid_owned[i] > pre_owned[i] /\ grid_demand[i] = MaxVal
    /\ vehicle_in_hand = 1

\* C19: the buy loop of _trade ends: once it is entered, step gets to the
\* end of the trade
C19_BuyLoopEnds == (pc \in {"buy", "buy_one"}) ~> (pc = "step_end")

\* C7: an episode over a series of at least two rows ends: after exactly
\* n_step - 1 calls of step, play_one_episode returns the cur_val of the last
C7_EpisodeEnds ==
    (pc = "ep_loop" /\ n_step >= 2)
    ~> (pc = "ep_start" /\ done /\ ep_steps = n_step - 1 /\ val = cur_val)

\* C8: cur_step never exceeds n_step - 1: step is not called on a terminal
\* environment and no row past the end of the series is read
C8_StepCounterBound == cur_step <= n_step - 1

====
